---- MODULE Spec2Model ----
(***************************************************************************)
(* A model of jmclib's SqliteSetup (src/src/sqlite.rs): the builder, and   *)
(* SqliteSetup::open, which opens a database file, checks its integrity,   *)
(* configures it, parses the schema script into version steps and applies  *)
(* the pending steps, each in its own immediate transaction.               *)
(*                                                                         *)
(* Text (String, &str) is a sequence of one-character strings, so that the *)
(* string functions the code uses are computed and not assumed.  An        *)
(* Option<T> is a sequence of length at most one: <<>> is None, <<x>> is   *)
(* Some(x).                                                                *)
(***************************************************************************)
EXTENDS Integers, Sequences, FiniteSets, TLC

(***************************************************************************)
(* Bounds of the model.                                                    *)
(***************************************************************************)
\* The largest number of marker lines of a schema script.
MaxSteps == 3

(***************************************************************************)
(* Text helpers: the std string functions open() calls.                    *)
(***************************************************************************)
None == <<>>

Some(x) == <<x>>

IsSome(o) == Len(o) = 1

Unwrap(o) == o[1]

\* str::starts_with
StartsWith(s, p) == Len(s) >= Len(p) /\ SubSeq(s, 1, Len(p)) = p

DropN(s, n) == SubSeq(s, n + 1, Len(s))

\* str::trim_start_matches: removes the prefix repeatedly, as long as it matches.
RECURSIVE TrimStartMatches(_, _)
TrimStartMatches(s, p) ==
    IF Len(p) > 0 /\ StartsWith(s, p)
    THEN TrimStartMatches(DropN(s, Len(p)), p)
    ELSE s

\* str::contains
Contains(s, p) == \E k \in 0..(Len(s) - Len(p)) : SubSeq(s, k + 1, k + Len(p)) = p

\* str::replace: every non-overlapping match, left to right.
RECURSIVE Replace(_, _, _)
Replace(s, from, to) ==
    IF Len(s) = 0 THEN <<>>
    ELSE IF StartsWith(s, from)
         THEN to \o Replace(DropN(s, Len(from)), from, to)
         ELSE <<s[1]>> \o Replace(DropN(s, 1), from, to)

\* char::is_whitespace, on the characters the model uses.
IsWhitespace(c) == c \in {" ", "\n", "\t", "\r"}

RECURSIVE TrimStart(_)
TrimStart(s) ==
    IF Len(s) > 0 /\ IsWhitespace(s[1]) THEN TrimStart(DropN(s, 1)) ELSE s

RECURSIVE TrimEnd(_)
TrimEnd(s) ==
    IF Len(s) > 0 /\ IsWhitespace(s[Len(s)])
    THEN TrimEnd(SubSeq(s, 1, Len(s) - 1))
    ELSE s

\* str::trim
Trim(s) == TrimEnd(TrimStart(s))

LowerCase ==
    <<"a", "b", "c", "d", "e", "f", "g", "h", "i", "j", "k", "l", "m",
      "n", "o", "p", "q", "r", "s", "t", "u", "v", "w", "x", "y", "z">>

UpperCase ==
    <<"A", "B", "C", "D", "E", "F", "G", "H", "I", "J", "K", "L", "M",
      "N", "O", "P", "Q", "R", "S", "T", "U", "V", "W", "X", "Y", "Z">>

\* u8::to_ascii_uppercase
UpperOf(c) ==
    IF \E k \in 1..26 : LowerCase[k] = c
    THEN UpperCase[CHOOSE k \in 1..26 : LowerCase[k] = c]
    ELSE c

\* str::to_ascii_uppercase
ToAsciiUppercase(s) == [k \in 1..Len(s) |-> UpperOf(s[k])]

Digits == {"0", "1", "2", "3", "4", "5", "6", "7", "8", "9"}

DigitVal(c) ==
    CASE c = "0" -> 0 [] c = "1" -> 1 [] c = "2" -> 2 [] c = "3" -> 3
      [] c = "4" -> 4 [] c = "5" -> 5 [] c = "6" -> 6 [] c = "7" -> 7
      [] c = "8" -> 8 [] c = "9" -> 9

RECURSIVE DecimalValue(_)
DecimalValue(s) ==
    IF Len(s) = 0 THEN 0
    ELSE 10 * DecimalValue(SubSeq(s, 1, Len(s) - 1)) + DigitVal(s[Len(s)])

\* u32::MAX, in digits (it is more than the model checker's integers hold).
U32MaxDigits == <<"4", "2", "9", "4", "9", "6", "7", "2", "9", "5">>

RECURSIVE StripZeros(_)
StripZeros(s) == IF Len(s) > 1 /\ s[1] = "0" THEN StripZeros(DropN(s, 1)) ELSE s

\* a > b for two digit strings of the same length
RECURSIVE DigitsGreater(_, _)
DigitsGreater(a, b) ==
    IF Len(a) = 0 THEN FALSE
    ELSE IF DigitVal(a[1]) # DigitVal(b[1]) THEN DigitVal(a[1]) > DigitVal(b[1])
    ELSE DigitsGreater(DropN(a, 1), DropN(b, 1))

\* The number overflows a u32.
Overflows(digits) ==
    LET d == StripZeros(digits)
    IN  Len(d) > 10 \/ (Len(d) = 10 /\ DigitsGreater(d, U32MaxDigits))

\* u32::from_str: an optional "+", then at least one digit, no overflow.
\* The result is None on an error and Some(value) otherwise.
ParseU32(s) ==
    LET digits == IF Len(s) > 0 /\ s[1] = "+" THEN DropN(s, 1) ELSE s
    IN  IF Len(digits) = 0 THEN None
        ELSE IF \E k \in 1..Len(digits) : digits[k] \notin Digits THEN None
        ELSE IF Overflows(digits) THEN None
        ELSE Some(DecimalValue(digits))

StripCR(l) ==
    IF Len(l) > 0 /\ l[Len(l)] = "\r" THEN SubSeq(l, 1, Len(l) - 1) ELSE l

\* str::lines: the text split at "\n" (or "\r\n"); a final empty line is not
\* a line.
RECURSIVE Lines(_)
Lines(s) ==
    IF Len(s) = 0 THEN <<>>
    ELSE IF \E k \in 1..Len(s) : s[k] = "\n"
         THEN LET k == CHOOSE k \in 1..Len(s) :
                           s[k] = "\n" /\ \A j \in 1..(k - 1) : s[j] # "\n"
              IN  <<StripCR(SubSeq(s, 1, k - 1))>> \o Lines(DropN(s, k))
         ELSE <<StripCR(s)>>

(***************************************************************************)
(* The schema script: parsing (sqlite.rs 115-134) and the whitespace       *)
(* normalisation of a statement (sqlite.rs 153-162).                       *)
(***************************************************************************)
\* The marker that starts a version step.
Marker == <<"-", "-", " ", "v", " ">>

\* Flush without its test of the version: the text gathered when no marker has
\* been read becomes a step, of version 0.
FlushAlways(steps, version, statement) ==
    Append(steps, [version |-> IF IsSome(version) THEN Unwrap(version) ELSE 0,
                   statement |-> Trim(statement)])

\* steps.push((version, statement.trim().to_string())), when a version is open.
Flush(steps, version, statement) ==
    IF IsSome(version)
    THEN Append(steps, [version |-> Unwrap(version), statement |-> Trim(statement)])
    ELSE steps

\* The loop without statement.clear(): the text gathered so far stays in the
\* statement when a marker is read.
RECURSIVE ParseLinesKeep(_, _, _, _)
ParseLinesKeep(ls, steps, version, statement) ==
    IF Len(ls) = 0
    THEN [ok |-> TRUE, steps |-> Flush(steps, version, statement)]
    ELSE LET l == Head(ls)
         IN  IF StartsWith(l, Marker)
             THEN LET v == ParseU32(TrimStartMatches(l, Marker))
                  IN  IF IsSome(v)
                      THEN ParseLinesKeep(Tail(ls), Flush(steps, version, statement),
                                          v, statement)
                      ELSE [ok |-> FALSE, steps |-> <<>>]
             ELSE ParseLinesKeep(Tail(ls), steps, version, statement \o l \o <<"\n">>)

\* The loop over schema.lines() and the flush after it.  The result is
\* [ok |-> FALSE] when a marker's version does not parse (the `?` of line
\* 125), and the steps otherwise.
RECURSIVE ParseLines(_, _, _, _)
ParseLines(ls, steps, version, statement) ==
    IF Len(ls) = 0
    THEN [ok |-> TRUE, steps |-> Flush(steps, version, statement)]
    ELSE LET l == Head(ls)
         IN  IF StartsWith(l, Marker)
             THEN LET v == ParseU32(TrimStartMatches(l, Marker))
                  IN  IF IsSome(v)
                      THEN ParseLines(Tail(ls), Flush(steps, version, statement),
                                      v, <<>>)
                      ELSE [ok |-> FALSE, steps |-> <<>>]
             ELSE ParseLines(Tail(ls), steps, version, statement \o l \o <<"\n">>)

\* The steps put in the order of their versions.
RECURSIVE InsertStep(_, _)
InsertStep(sorted, step) ==
    IF Len(sorted) = 0 THEN <<step>>
    ELSE IF step.version < Head(sorted).version THEN <<step>> \o sorted
    ELSE <<Head(sorted)>> \o InsertStep(Tail(sorted), step)

RECURSIVE SortSteps(_)
SortSteps(ss) ==
    IF Len(ss) = 0 THEN <<>>
    ELSE InsertStep(SortSteps(SubSeq(ss, 1, Len(ss) - 1)), ss[Len(ss)])

\* The parser with the steps sorted by version after the loop.
ParseSchemaSorted(schema) ==
    LET parsed == ParseLines(Lines(schema), <<>>, None, <<>>)
    IN  IF parsed.ok THEN [ok |-> TRUE, steps |-> SortSteps(parsed.steps)] ELSE parsed

ParseSchema(schema) == ParseLines(Lines(schema), <<>>, None, <<>>)

\* One replacement pass in place of the loop.
CollapseOnce(s, from, to) == Replace(Trim(s), from, to)

\* while statement.contains(from) { statement = statement.trim().replace(from, to) }
RECURSIVE Collapse(_, _, _)
Collapse(s, from, to) ==
    IF Contains(s, from) THEN Collapse(Replace(Trim(s), from, to), from, to) ELSE s

\* The statement as it is executed.
Normalise(statement) ==
    LET s0 == Replace(statement, <<"\n">>, <<" ">>)
        s1 == Collapse(s0, <<"(", " ">>, <<"(">>)
        s2 == Collapse(s1, <<" ", ")">>, <<")">>)
    IN  Collapse(s2, <<" ", " ">>, <<" ">>)

\* Pending with the comparison weakened to >=: a step at the stored version
\* counts as pending.
PendingOrEqual(version, uv) == version >= uv

\* Pending with the comparison turned into "differs": a step below the
\* stored version counts as pending.
PendingUnequal(version, uv) == version # uv

\* if version > uv: the step is pending.
Pending(version, uv) == version > uv

(***************************************************************************)
(* The inputs: schema scripts and what the database engine may answer.     *)
(***************************************************************************)
\* Marker lines: "-- v 1", "-- v 2", "-- v 3", a marker whose version is not
\* a number, "-- v x", and a marker that repeats the prefix, "-- v -- v 2".
MarkerLines ==
    { Marker \o <<"1">>, Marker \o <<"2">>, Marker \o <<"3">>,
      Marker \o <<"x">>, Marker \o Marker \o <<"2">> }

\* The lines of a step's statement, "t (" and " a )".
BodyLines == << <<"t", " ", "(">>, <<" ", "a", " ", ")">> >>

RECURSIVE JoinLines(_)
JoinLines(ls) ==
    IF Len(ls) = 0 THEN <<>> ELSE Head(ls) \o <<"\n">> \o JoinLines(Tail(ls))

RECURSIVE Blocks(_)
Blocks(ms) ==
    IF Len(ms) = 0 THEN <<>> ELSE <<Head(ms)>> \o BodyLines \o Blocks(Tail(ms))

SeqsUpTo(S, n) == UNION { [1..k -> S] : k \in 0..n }

\* A line before the first marker.
PreambleLines == << <<"p">> >>

\* Every script of at most MaxSteps marker lines, each followed by a
\* statement, and the script that has lines but no marker line.
Scripts ==
    { JoinLines(Blocks(ms)) : ms \in SeqsUpTo(MarkerLines, MaxSteps) }
        \cup { JoinLines(PreambleLines \o BodyLines) }

\* What "PRAGMA integrity_check" may report in its first row.
IntegrityReplies == { <<"o", "k">>, <<"O", "K">>, <<"O", "k">>, <<"b", "a", "d">> }

\* What "PRAGMA journal_mode = 'WAL'" may report.
JournalReplies == { <<"w", "a", "l">>, <<"W", "A", "L">>, <<"d", "e", "l", "e", "t", "e">> }

\* A cache size for cache_kb().
CacheKbs == {4096}

(***************************************************************************)
(* The state.                                                              *)
(***************************************************************************)
VARIABLES
    setup,      \* the SqliteSetup: schema, cache_kb, check_integrity
    db,         \* the committed content of the file: uv (user_version), log
                \* (the statements whose effects it holds, as <<version,
                \* statement>>), stamps (the versions written to user_version)
    conn,       \* open() holds a Connection
    tx,         \* Some(content as the open transaction sees it), or None
    pc,         \* where open() is
    integrity,  \* Some(what the integrity check reported), until line 81
    new_mode,   \* Some(the journal mode reported), until it is last read
    steps,      \* the parsed steps
    idx,        \* the step the loop is at
    uvOpen,     \* the uv of line 139
    uvTx,       \* the uv of line 179
    result,     \* "none", "ok" or the context of the error open() returned
    executed,   \* the steps (indices) whose statement this open() executed
    begun,      \* the transactions this open() began
    writes,     \* the versions this open() wrote
    db0,        \* the committed content when this open() was called
    prev        \* how the previous open() of this same setup ended: "ok",
                \* "step" (the statement or the version write of step idx
                \* failed) or "none" (anything else, or there was none)

VARIABLES
    other,      \* a second process in open() on the same file with the same
                \* setup: where it is (pc), its step (idx), its transaction
                \* (tx), its uv of line 179 (uvTx), the steps it parsed and
                \* the steps it executed
    sample,     \* a text given to the parser or to the normalisation alone,
                \* and what came out
    fs          \* toml::write_file and toml::read_file on one path

vars == <<setup, db, conn, tx, pc, integrity, new_mode, steps, idx, uvOpen, uvTx, result,
          executed, begun, writes, db0, prev, other, sample, fs>>

\* What the actions of one open() leave alone.
aux == <<other, sample, fs>>

\* No second process.
OtherOff ==
    [pc |-> "off", idx |-> 0, tx |-> None, uvTx |-> 0, steps |-> <<>>,
     executed |-> <<>>]

NoSample == [kind |-> "none"]

NoFs == [pc |-> "off"]

locals == <<steps, idx, uvOpen, uvTx>>

counts == <<executed, begun, writes>>

EmptyDb == [uv |-> 0, log |-> <<>>, stamps |-> <<>>]

\* SqliteSetup::new
NewSetup ==
    [schema |-> None, cache_kb |-> None, check_integrity |-> TRUE]

NoPrev == [result |-> "none", idx |-> 0]

InitOpen ==
    /\ setup = NewSetup
    /\ db = EmptyDb
    /\ conn = FALSE
    /\ tx = None
    /\ pc = "idle"
    /\ integrity = None
    /\ new_mode = None
    /\ steps = <<>>
    /\ idx = 0
    /\ uvOpen = 0
    /\ uvTx = 0
    /\ result = "none"
    /\ executed = <<>>
    /\ begun = 0
    /\ writes = <<>>
    /\ db0 = EmptyDb
    /\ prev = NoPrev

Init ==
    /\ InitOpen
    /\ other = OtherOff
    /\ sample = NoSample
    /\ fs = NoFs

(***************************************************************************)
(* The builder.                                                            *)
(***************************************************************************)
Builder(s) ==
    /\ pc = "idle"
    /\ setup' = s
    /\ prev' = NoPrev
    /\ UNCHANGED <<aux, db, conn, tx, pc, integrity, new_mode, locals, result, counts, db0>>

New == setup # NewSetup /\ Builder(NewSetup)

CheckIntegrity ==
    \E b \in BOOLEAN :
        b # setup.check_integrity /\ Builder([setup EXCEPT !.check_integrity = b])

\* schema() on a setup that has none yet: another script is set on a new
\* SqliteSetup (New), which reaches the same setups.
Schema ==
    /\ pc = "idle"
    /\ ~IsSome(setup.schema)
    /\ \E s \in Scripts : Builder([setup EXCEPT !.schema = Some(s)])

CacheKb ==
    \E kb \in CacheKbs :
        Some(kb) # setup.cache_kb /\ Builder([setup EXCEPT !.cache_kb = Some(kb)])

(***************************************************************************)
(* SqliteSetup::open.                                                      *)
(***************************************************************************)
OK == <<"O", "K">>

WAL == <<"W", "A", "L">>

\* The integrity test inverted.
IntegrityFailureInverted(reported) == ToAsciiUppercase(reported) = OK

\* integrity.to_ascii_uppercase() != "OK"
IntegrityFailure(reported) == ToAsciiUppercase(reported) # OK

\* The journal mode compared as reported, without to_ascii_uppercase.
JournalFailureExact(reported) == reported # WAL

\* new_mode.to_ascii_uppercase() != "WAL"
JournalFailure(reported) == ToAsciiUppercase(reported) # WAL

\* The write lock taken without regard to its holder, as a deferred
\* transaction would begin.
WriteLockIgnored(holder) == TRUE

\* TransactionBehavior::Immediate: the transaction begins once no other
\* connection holds the write lock of the file.
WriteLockFree(holder) == ~IsSome(holder)

\* transaction_with_behavior(Immediate): the transaction sees the committed
\* content and holds the write lock.
BeginImmediate(d) == Some(d)

\* tx.execute(&statement, []): the statement's effect, inside the transaction.
ExecuteStatement(t, step) ==
    [t EXCEPT !.log = Append(@, <<step.version, Normalise(step.statement)>>)]

\* The version write left out.
WriteUserVersionSkipped(t, version) == t

\* tx.execute("PRAGMA user_version = {version}"), inside the transaction.
WriteUserVersion(t, version) ==
    [t EXCEPT !.uv = version, !.stamps = Append(@, version)]

\* A transaction that commits when it is dropped (DropBehavior::Commit).
DropCommits(d, t) == IF IsSome(t) THEN Unwrap(t) ELSE d

\* tx going out of scope without a commit (the `?` of lines 181-199): the
\* transaction is rolled back, the committed content stays.
DropTransaction(d, t) == d

\* An error return that leaves the transaction as it is.
FailHolding(ctx) ==
    /\ pc' = "failed"
    /\ result' = ctx
    /\ conn' = FALSE
    /\ db' = db
    /\ tx' = tx

\* An error return: tx and c are dropped.
Fail(ctx) ==
    /\ pc' = "failed"
    /\ result' = ctx
    /\ conn' = FALSE
    /\ db' = DropTransaction(db, tx)
    /\ tx' = None

\* The errors of the `?` of lines 174 and 199, which have no context(): the
\* model names them by the call that failed.
NoContext == {"begin transaction", "commit"}

\* The error open() returns: the engine's error, under the literal given to
\* context() where there is one.  Neither context() nor bail! is given the
\* version or the statement of a step (they go to info! alone, line 184).
ErrorOf(ctx) ==
    [context |-> IF ctx \in NoContext THEN None ELSE Some(ctx),
     version |-> None,
     statement |-> None]

\* What the caller of open() holds as its error, when open() failed.
error == IF pc = "failed" THEN Some(ErrorOf(result)) ELSE None

\* Lines 64-71.  The file is there, or is created, and is opened; or it is
\* not, and open() returns the error.
OpenDatabase ==
    /\ pc = "idle"
    /\ db0' = db
    /\ \/ /\ conn' = TRUE
          /\ pc' = "integrity"
          /\ UNCHANGED result
       \/ /\ pc' = "failed"
          /\ result' = "opening database"
          /\ UNCHANGED conn
    /\ UNCHANGED <<aux, setup, db, tx, integrity, new_mode, locals, counts, prev>>

\* Lines 73-81.
IntegrityCheck ==
    /\ pc = "integrity"
    /\ \/ /\ ~setup.check_integrity
          /\ pc' = "fk"
          /\ UNCHANGED <<integrity, result, conn, db, tx>>
       \/ /\ setup.check_integrity
          /\ \E reply \in IntegrityReplies :
                /\ integrity' = Some(reply)
                /\ IF IntegrityFailure(reply)
                   THEN Fail("integrity check failure")
                   ELSE pc' = "fk" /\ UNCHANGED <<result, conn, db, tx>>
       \/ /\ setup.check_integrity
          /\ Fail("integrity check")
          /\ UNCHANGED integrity
    /\ UNCHANGED <<aux, setup, new_mode, locals, counts, db0, prev>>

\* Lines 88-89.
ForeignKeys ==
    /\ pc = "fk"
    /\ integrity' = None
    /\ \/ pc' = "wal" /\ UNCHANGED <<result, conn, db, tx>>
       \/ Fail("enable foreign keys")
    /\ UNCHANGED <<aux, setup, new_mode, locals, counts, db0, prev>>

\* Lines 94-99.
JournalMode ==
    /\ pc = "wal"
    /\ \/ \E reply \in JournalReplies :
             /\ new_mode' = Some(reply)
             /\ IF JournalFailure(reply)
                THEN Fail("could not set journal mode to WAL")
                ELSE pc' = "cache" /\ UNCHANGED <<result, conn, db, tx>>
       \/ Fail("enable WAL mode") /\ UNCHANGED new_mode
    /\ UNCHANGED <<aux, setup, integrity, locals, counts, db0, prev>>

\* Lines 105-108.
CacheSize ==
    /\ pc = "cache"
    /\ new_mode' = None
    /\ \/ /\ ~IsSome(setup.cache_kb)
          /\ pc' = "schema"
          /\ UNCHANGED <<result, conn, db, tx>>
       \/ /\ IsSome(setup.cache_kb)
          /\ pc' = "schema"
          /\ UNCHANGED <<result, conn, db, tx>>
       \/ /\ IsSome(setup.cache_kb)
          /\ Fail("set cache size")
    /\ UNCHANGED <<aux, setup, integrity, locals, counts, db0, prev>>

\* Lines 110-134 with a missing schema taken for an empty script.
ParseScriptDefault ==
    /\ pc = "schema"
    /\ LET parsed == ParseSchema(IF IsSome(setup.schema) THEN Unwrap(setup.schema)
                                 ELSE <<>>)
       IN  IF parsed.ok
           THEN /\ steps' = parsed.steps
                /\ pc' = "getuv"
                /\ UNCHANGED <<result, conn, db, tx>>
           ELSE Fail("parse version") /\ UNCHANGED steps
    /\ UNCHANGED <<aux, setup, integrity, new_mode, idx, uvOpen, uvTx, counts, db0, prev>>

\* Lines 110-134: without a schema open() is done; with one, it is parsed.
ParseScript ==
    /\ pc = "schema"
    /\ \/ /\ ~IsSome(setup.schema)
          /\ pc' = "done"
          /\ result' = "ok"
          /\ UNCHANGED <<conn, db, tx, steps>>
       \/ /\ IsSome(setup.schema)
          /\ LET parsed == ParseSchema(Unwrap(setup.schema))
             IN  IF parsed.ok
                 THEN /\ steps' = parsed.steps
                      /\ pc' = "getuv"
                      /\ UNCHANGED <<result, conn, db, tx>>
                 ELSE Fail("parse version") /\ UNCHANGED steps
    /\ UNCHANGED <<aux, setup, integrity, new_mode, idx, uvOpen, uvTx, counts, db0, prev>>

\* Lines 139-141.
GetUserVersion ==
    /\ pc = "getuv"
    /\ \/ /\ uvOpen' = db.uv
          /\ idx' = 1
          /\ pc' = "loop"
          /\ UNCHANGED <<result, conn, db, tx>>
       \/ Fail("get user version") /\ UNCHANGED <<uvOpen, idx>>
    /\ UNCHANGED <<aux, setup, integrity, new_mode, steps, uvTx, counts, db0, prev>>

\* Lines 172-174.  An immediate transaction takes the write lock of the file
\* when it begins: while another connection holds it the call waits, and
\* fails when it has waited too long.
BeginTransaction ==
    /\ pc = "loop"
    /\ idx <= Len(steps)
    /\ \/ /\ WriteLockFree(other.tx)
          /\ tx' = BeginImmediate(db)
          /\ begun' = begun + 1
          /\ pc' = "txuv"
          /\ UNCHANGED <<result, conn, db>>
       \/ Fail("begin transaction") /\ UNCHANGED begun
    /\ UNCHANGED <<aux, setup, integrity, new_mode, locals, executed, writes, db0, prev>>

\* Lines 179-183 with the step decided on the version read when open() began
\* (line 139) and not on the one read in the transaction.
TxUserVersionAtOpen ==
    /\ pc = "txuv"
    /\ \/ /\ uvTx' = Unwrap(tx).uv
          /\ pc' = IF Pending(steps[idx].version, uvOpen) THEN "exec" ELSE "commit"
          /\ UNCHANGED <<result, conn, db, tx>>
       \/ Fail("get user version again") /\ UNCHANGED uvTx
    /\ UNCHANGED <<aux, setup, integrity, new_mode, steps, idx, uvOpen, counts, db0, prev>>

\* Lines 179-183.
TxUserVersion ==
    /\ pc = "txuv"
    /\ \/ /\ uvTx' = Unwrap(tx).uv
          /\ pc' = IF Pending(steps[idx].version, uvTx') THEN "exec" ELSE "commit"
          /\ UNCHANGED <<result, conn, db, tx>>
       \/ Fail("get user version again") /\ UNCHANGED uvTx
    /\ UNCHANGED <<aux, setup, integrity, new_mode, steps, idx, uvOpen, counts, db0, prev>>

\* Lines 186-188.
ApplyStatement ==
    /\ pc = "exec"
    /\ \/ /\ tx' = Some(ExecuteStatement(Unwrap(tx), steps[idx]))
          /\ executed' = Append(executed, idx)
          /\ pc' = "stamp"
          /\ UNCHANGED <<result, conn, db>>
       \/ Fail("apply schema change") /\ UNCHANGED executed
    /\ UNCHANGED <<aux, setup, integrity, new_mode, locals, begun, writes, db0, prev>>

\* Lines 194-195.
SetUserVersion ==
    /\ pc = "stamp"
    /\ \/ /\ tx' = Some(WriteUserVersion(Unwrap(tx), steps[idx].version))
          /\ writes' = Append(writes, steps[idx].version)
          /\ pc' = "commit"
          /\ UNCHANGED <<result, conn, db>>
       \/ Fail("set user version") /\ UNCHANGED writes
    /\ UNCHANGED <<aux, setup, integrity, new_mode, locals, executed, begun, db0, prev>>

\* Line 199, and the step of the loop.
CommitTransaction ==
    /\ pc = "commit"
    /\ \/ /\ db' = Unwrap(tx)
          /\ tx' = None
          /\ idx' = idx + 1
          /\ pc' = "loop"
          /\ UNCHANGED <<result, conn>>
       \/ Fail("commit") /\ UNCHANGED idx
    /\ UNCHANGED <<aux, setup, integrity, new_mode, steps, uvOpen, uvTx, counts, db0, prev>>

\* Line 203.
ReturnConnection ==
    /\ pc = "loop"
    /\ idx > Len(steps)
    /\ pc' = "done"
    /\ result' = "ok"
    /\ UNCHANGED <<aux, setup, db, conn, tx, integrity, new_mode, locals, counts, db0, prev>>

Forget(how) ==
    /\ pc' = "idle"
    /\ conn' = FALSE
    /\ tx' = None
    /\ prev' = IF how \in {"apply schema change", "set user version"}
               THEN [result |-> "step", idx |-> idx]
               ELSE IF how = "ok" THEN [result |-> "ok", idx |-> 0]
               ELSE NoPrev
    /\ integrity' = None
    /\ new_mode' = None
    /\ steps' = <<>>
    /\ idx' = 0
    /\ uvOpen' = 0
    /\ uvTx' = 0
    /\ result' = "none"
    /\ executed' = <<>>
    /\ begun' = 0
    /\ writes' = <<>>
    /\ db0' = EmptyDb
    /\ UNCHANGED <<aux, setup, db>>

\* open() has returned; the caller drops what it got.
Close == pc \in {"done", "failed"} /\ Forget(result)

\* The process dies inside open(): what was not committed is lost.
Crash == pc \notin {"idle", "done", "failed"} /\ Forget("crash")

Next ==
    \/ New
    \/ CheckIntegrity
    \/ Schema
    \/ CacheKb
    \/ OpenDatabase
    \/ IntegrityCheck
    \/ ForeignKeys
    \/ JournalMode
    \/ CacheSize
    \/ ParseScript
    \/ GetUserVersion
    \/ BeginTransaction
    \/ TxUserVersion
    \/ ApplyStatement
    \/ SetUserVersion
    \/ CommitTransaction
    \/ ReturnConnection
    \/ Close
    \/ Crash

Spec == Init /\ [][Next]_vars

(***************************************************************************)
(* Two processes in open() on one file.  The second process is given the  *)
(* same script; it is followed from its parsing on, as is the first.       *)
(***************************************************************************)
\* Marker lines of versions 0 to 3.
OrderMarkerLines ==
    { <<"-", "-", " ", "v", " ", d>> : d \in {"0", "1", "2", "3"} }

\* Every script of at most MaxSteps steps with these markers, in any order.
OrderScripts == { JoinLines(Blocks(ms)) : ms \in SeqsUpTo(OrderMarkerLines, MaxSteps) }

\* The state of the first process: everything but the file.
main == <<setup, conn, tx, pc, integrity, new_mode, steps, idx, uvOpen, uvTx, result,
          executed, begun, writes, db0, prev>>

\* Both processes have opened the file, at version 0, and set their pragmas.
InitTwo ==
    /\ setup \in { [schema |-> Some(s), cache_kb |-> None, check_integrity |-> FALSE] :
                      s \in OrderScripts }
    /\ db = EmptyDb
    /\ conn = TRUE
    /\ tx = None
    /\ pc = "schema"
    /\ integrity = None
    /\ new_mode = Some(<<"w", "a", "l">>)
    /\ steps = <<>>
    /\ idx = 0
    /\ uvOpen = 0
    /\ uvTx = 0
    /\ result = "none"
    /\ executed = <<>>
    /\ begun = 0
    /\ writes = <<>>
    /\ db0 = EmptyDb
    /\ prev = NoPrev
    /\ other = [OtherOff EXCEPT !.pc = "schema"]
    /\ sample = NoSample
    /\ fs = NoFs

\* Lines 110-141 in the second process.
OtherParse ==
    /\ other.pc = "schema"
    /\ LET parsed == ParseSchema(Unwrap(setup.schema))
       IN  other' = IF parsed.ok
                    THEN [other EXCEPT !.pc = "loop", !.steps = parsed.steps, !.idx = 1]
                    ELSE [other EXCEPT !.pc = "failed"]
    /\ UNCHANGED <<main, db, sample, fs>>

\* Lines 172-174 in the second process.
OtherBegin ==
    /\ other.pc = "loop"
    /\ other.idx <= Len(other.steps)
    /\ WriteLockFree(tx)
    /\ other' = [other EXCEPT !.pc = "txuv", !.tx = BeginImmediate(db)]
    /\ UNCHANGED <<main, db, sample, fs>>

\* Lines 179-183 in the second process.
OtherTxUserVersion ==
    /\ other.pc = "txuv"
    /\ LET uv == Unwrap(other.tx).uv
       IN  other' = [other EXCEPT
                        !.uvTx = uv,
                        !.pc = IF Pending(other.steps[other.idx].version, uv)
                               THEN "exec" ELSE "commit"]
    /\ UNCHANGED <<main, db, sample, fs>>

\* Lines 186-188 in the second process.
OtherApply ==
    /\ other.pc = "exec"
    /\ other' = [other EXCEPT
                    !.pc = "stamp",
                    !.tx = Some(ExecuteStatement(Unwrap(other.tx), other.steps[other.idx])),
                    !.executed = Append(other.executed, other.idx)]
    /\ UNCHANGED <<main, db, sample, fs>>

\* Lines 194-195 in the second process.
OtherStamp ==
    /\ other.pc = "stamp"
    /\ other' = [other EXCEPT
                    !.pc = "commit",
                    !.tx = Some(WriteUserVersion(Unwrap(other.tx),
                                                 other.steps[other.idx].version))]
    /\ UNCHANGED <<main, db, sample, fs>>

\* Line 199 in the second process.
OtherCommit ==
    /\ other.pc = "commit"
    /\ db' = Unwrap(other.tx)
    /\ other' = [other EXCEPT !.pc = "loop", !.tx = None, !.idx = other.idx + 1]
    /\ UNCHANGED <<main, sample, fs>>

\* Line 203 in the second process.
OtherReturn ==
    /\ other.pc = "loop"
    /\ other.idx > Len(other.steps)
    /\ other' = [other EXCEPT !.pc = "done"]
    /\ UNCHANGED <<main, db, sample, fs>>

\* An error return of lines 172-199 in the second process: its transaction,
\* when it has one, is dropped.
OtherFails ==
    /\ \/ other.pc \in {"txuv", "exec", "stamp", "commit"}
       \/ other.pc = "loop" /\ other.idx <= Len(other.steps)
    /\ db' = DropTransaction(db, other.tx)
    /\ other' = [other EXCEPT !.pc = "failed", !.tx = None]
    /\ UNCHANGED <<main, sample, fs>>

NextTwo ==
    \/ ParseScript
    \/ GetUserVersion
    \/ BeginTransaction
    \/ TxUserVersion
    \/ ApplyStatement
    \/ SetUserVersion
    \/ CommitTransaction
    \/ ReturnConnection
    \/ OtherParse
    \/ OtherBegin
    \/ OtherTxUserVersion
    \/ OtherApply
    \/ OtherStamp
    \/ OtherCommit
    \/ OtherReturn
    \/ OtherFails

SpecTwo == InitTwo /\ [][NextTwo]_vars

(***************************************************************************)
(* The parser and the normalisation on their own: a text is drawn, parsed  *)
(* as lines 115-134 parse a script, or prepared as lines 121 and 153-162   *)
(* prepare a statement.                                                    *)
(***************************************************************************)
MaxText == 5

MaxLines == 5

\* The characters of the statement texts.
TextChars == {"(", ")", " ", "\n", "a"}

\* A statement written over several indented lines.
ExampleStatement ==
    <<"C", "R", "E", "A", "T", "E", " ", "T", "A", "B", "L", "E",
      " ", "t", " ", "(", "\n", " ", " ", "a", " ", "I", "N", "T",
      ",", "\n", " ", " ", "b", " ", "I", "N", "T", "\n", ")">>

\* The texts between two markers: every text of at most MaxText characters,
\* and the one above.
Texts == SeqsUpTo(TextChars, MaxText) \cup {ExampleStatement}

\* The lines of the scripts: two markers, two lines of a statement, one of
\* them indented, and the empty line.
ScriptLines ==
    { <<"-", "-", " ", "v", " ", "1">>, <<"-", "-", " ", "v", " ", "2">>,
      <<"p">>, <<" ", "q">>, <<>> }

\* The scripts: at most MaxLines of these lines.
LineScripts == SeqsUpTo(ScriptLines, MaxLines)

InitText ==
    /\ InitOpen
    /\ other = OtherOff
    /\ fs = NoFs
    /\ sample \in { [kind |-> "statement", text |-> s, out |-> None, again |-> None] :
                       s \in Texts }
                  \cup { [kind |-> "script", lines |-> ls, out |-> None] :
                            ls \in LineScripts }

\* Lines 121 and 153-162: the text gathered for a step is trimmed when the
\* step is pushed and normalised when the step comes up.
NormaliseStatement ==
    /\ sample.kind = "statement"
    /\ ~IsSome(sample.out)
    /\ sample' = [sample EXCEPT !.out = Some(Normalise(Trim(sample.text)))]
    /\ UNCHANGED <<main, db, other, fs>>

\* Lines 153-162 on a text that has been through them.
NormaliseAgain ==
    /\ sample.kind = "statement"
    /\ IsSome(sample.out)
    /\ ~IsSome(sample.again)
    /\ sample' = [sample EXCEPT !.again = Some(Normalise(Unwrap(sample.out)))]
    /\ UNCHANGED <<main, db, other, fs>>

\* Lines 115-134.
ParseText ==
    /\ sample.kind = "script"
    /\ ~IsSome(sample.out)
    /\ sample' = [sample EXCEPT !.out = Some(ParseSchema(JoinLines(sample.lines)))]
    /\ UNCHANGED <<main, db, other, fs>>

NextText ==
    \/ NormaliseStatement
    \/ NormaliseAgain
    \/ ParseText

SpecText == InitText /\ [][NextText]_vars

(***************************************************************************)
(* toml::write_file and toml::read_file (toml.rs 53-119) on one path.  A   *)
(* file is a sequence of blocks; a name (the path, or the name of the      *)
(* temporary file) leads to a file, and so does an open handle.            *)
(***************************************************************************)
MaxBlocks == 2

\* The content of n blocks written by `who`.
Content(who, n) == [k \in 1..n |-> <<who, k>>]

\* The file the path leads to before write_file, and the temporary file.
OldFile == "previous"

TempFile == "temporary"

\* No file under a name, no file behind a handle.
NoFile == "none"

\* The file written in place: the path is made to lead to the new, empty
\* file, as File::create(p) would.
CreateInPlace(f) ==
    [f EXCEPT !.files[TempFile] = Some(<<>>), !.temp = TempFile, !.path = TempFile]

\* NamedTempFile::new_in(dir): a new, empty file under a fresh name in the
\* directory of the path.
NewIn(f) == [f EXCEPT !.files[TempFile] = Some(<<>>), !.temp = TempFile]

\* Drop of the NamedTempFile at an error return: its name is removed.
DropTemp(f) == [f EXCEPT !.temp = NoFile, !.buf = <<>>]

\* tf.persist(p): rename(2) of the temporary name to the path.
Persist(f) == [f EXCEPT !.path = f.temp, !.temp = NoFile]

\* What the path leads to: None when there is no file.
AtPath(f) == IF f.path = NoFile THEN None ELSE f.files[f.path]

InitToml ==
    /\ InitOpen
    /\ other = OtherOff
    /\ sample = NoSample
    /\ \E had \in 0..MaxBlocks, n \in 1..MaxBlocks :
          fs = [pc |-> "serialise",
                o |-> Content("new", n),
                files |-> [i \in {OldFile, TempFile} |->
                              IF i = OldFile /\ had > 0
                              THEN Some(Content("old", had)) ELSE None],
                path |-> IF had > 0 THEN OldFile ELSE NoFile,
                path0 |-> IF had > 0 THEN OldFile ELSE NoFile,
                temp |-> NoFile,
                buf |-> <<>>,
                rpc |-> "open",
                handle |-> NoFile,
                got |-> None]

WriterFails == fs' = [DropTemp(fs) EXCEPT !.pc = "failed"]

\* Line 82: toml::to_vec(o).
Serialise ==
    /\ fs.pc = "serialise"
    /\ \/ fs' = [fs EXCEPT !.pc = "create"]
       \/ WriterFails
    /\ UNCHANGED <<main, db, other, sample>>

\* Lines 89-90.
CreateTemp ==
    /\ fs.pc = "create"
    /\ \/ fs' = [NewIn(fs) EXCEPT !.pc = "write"]
       \/ WriterFails
    /\ UNCHANGED <<main, db, other, sample>>

\* Lines 93-94: write_all into the BufWriter.  Any number of the blocks
\* reaches the file, the others stay in the buffer; a failed write leaves
\* the file with what had reached it.
WriteAll ==
    /\ fs.pc = "write"
    /\ \E k \in 0..Len(fs.o) :
          LET wrote == [fs EXCEPT !.files[TempFile] = Some(SubSeq(fs.o, 1, k)),
                                  !.buf = SubSeq(fs.o, k + 1, Len(fs.o))]
          IN  \/ fs' = [wrote EXCEPT !.pc = "flush"]
              \/ fs' = [DropTemp(wrote) EXCEPT !.pc = "failed"]
    /\ UNCHANGED <<main, db, other, sample>>

\* Line 95: flush of the BufWriter.
FlushWriter ==
    /\ fs.pc = "flush"
    /\ \/ fs' = [fs EXCEPT !.files[TempFile] = Some(Unwrap(fs.files[TempFile]) \o fs.buf),
                            !.buf = <<>>,
                            !.pc = "fsync"]
       \/ WriterFails
    /\ UNCHANGED <<main, db, other, sample>>

\* Lines 98-109: fsync(2) of the temporary file.
Fsync ==
    /\ fs.pc = "fsync"
    /\ \/ fs' = [fs EXCEPT !.pc = "persist"]
       \/ WriterFails
    /\ UNCHANGED <<main, db, other, sample>>

\* Line 117.
PersistTemp ==
    /\ fs.pc = "persist"
    /\ \/ fs' = [Persist(fs) EXCEPT !.pc = "done"]
       \/ WriterFails
    /\ UNCHANGED <<main, db, other, sample>>

\* Lines 59-65 in another thread or process: File::open(p); without a file
\* read_file returns None.
ReaderOpens ==
    /\ fs.rpc = "open"
    /\ \/ /\ fs.path = NoFile
          /\ fs' = [fs EXCEPT !.rpc = "done"]
       \/ /\ fs.path # NoFile
          /\ fs' = [fs EXCEPT !.rpc = "read", !.handle = fs.path, !.got = Some(<<>>)]
       \/ fs' = [fs EXCEPT !.rpc = "failed"]
    /\ UNCHANGED <<main, db, other, sample>>

\* Line 69: read_to_end, one read(2) at a time, of the file that was opened.
ReaderReads ==
    /\ fs.rpc = "read"
    /\ LET file == Unwrap(fs.files[fs.handle])
           have == Len(Unwrap(fs.got))
       IN  \/ /\ have < Len(file)
              /\ fs' = [fs EXCEPT !.got = Some(Append(Unwrap(fs.got), file[have + 1]))]
           \/ /\ have >= Len(file)
              /\ fs' = [fs EXCEPT !.rpc = "done"]
           \/ fs' = [fs EXCEPT !.rpc = "failed"]
    /\ UNCHANGED <<main, db, other, sample>>

NextToml ==
    \/ Serialise
    \/ CreateTemp
    \/ WriteAll
    \/ FlushWriter
    \/ Fsync
    \/ PersistTemp
    \/ ReaderOpens
    \/ ReaderReads

SpecToml == InitToml /\ [][NextToml]_vars

(***************************************************************************)
(* Properties.                                                             *)
(***************************************************************************)
\* The versions of the statements a content holds.
Versions(log) == [k \in 1..Len(log) |-> log[k][1]]

Range(s) == { s[k] : k \in 1..Len(s) }

MaxOf(S) == CHOOSE m \in S : \A n \in S : n <= m

\* The versions of the parsed steps increase strictly in script order.
Increasing == \A k \in 1..(Len(steps) - 1) : steps[k].version < steps[k + 1].version

\* The steps (indices, in script order) whose version is greater than v.
StepsAbove(v) ==
    SelectSeq([k \in 1..Len(steps) |-> k], LAMBDA k : steps[k].version > v)

\* What executing step k adds to the content.
Effect(k) == <<steps[k].version, Normalise(steps[k].statement)>>

\* The effects of the steps ks, in order.
Effects(ks) == [k \in 1..Len(ks) |-> Effect(ks[k])]

\* The script's steps, when it parses.
HasStepAbove(schema, v) ==
    /\ IsSome(schema)
    /\ LET parsed == ParseSchema(Unwrap(schema))
       IN  parsed.ok /\ \E k \in 1..Len(parsed.steps) : parsed.steps[k].version > v

\* C1: idempotence.  During an open() that follows an open() of the same
\* setup that returned a connection, no statement is executed, no version is
\* written and the committed content (version and statements) stays what it
\* was when this open() was called.
Idempotent ==
    (pc # "idle" /\ prev.result = "ok") =>
        /\ executed = <<>>
        /\ writes = <<>>
        /\ db = db0
        /\ IsSome(tx) => Unwrap(tx) = db

\* C1: a second open() that went through a script of several steps, on a
\* database that holds several applied steps, has returned.
IdempotentWitness ==
    /\ pc = "done"
    /\ prev.result = "ok"
    /\ IsSome(setup.schema)
    /\ Len(steps) >= 2
    /\ begun = Len(steps)
    /\ Len(db.log) >= 2

\* C2 as stated: when a statement fails, the stored version after the failed
\* open() is the stored version before the open().
AtomicityOfInvocation ==
    (pc = "failed" /\ result = "apply schema change") => db.uv = db0.uv

\* C2, amended: when a statement fails, the stored version after the failed
\* open() is the version read in the failing step's transaction, which is the
\* version of the last step this open() committed, or the version before the
\* open() when it committed none; the content holds the effects of the steps
\* committed before, and not the failing step's.
AtomicityOfStep ==
    (pc = "failed" /\ result = "apply schema change") =>
        /\ db.uv = uvTx
        /\ db.uv = IF executed = <<>> THEN db0.uv
                   ELSE steps[executed[Len(executed)]].version
        /\ db.log = db0.log \o Effects(executed)
        /\ idx \notin Range(executed)

\* C2: a statement failed after an earlier step of the same open() was
\* executed and committed.
AtomicityWitness ==
    /\ pc = "failed"
    /\ result = "apply schema change"
    /\ executed # <<>>
    /\ db.uv > db0.uv

\* C3: monotonicity.  No step decreases the stored version, and a version
\* write sets the version to a value greater than the one read in the same
\* transaction.
Monotonic ==
    [][ /\ db'.uv >= db.uv
        /\ Len(writes') > Len(writes) =>
              /\ Unwrap(tx).uv = uvTx
              /\ writes'[Len(writes')] > uvTx
              /\ Unwrap(tx').uv = writes'[Len(writes')] ]_vars

\* C3: an open() that failed after it wrote a version, on a database that was
\* already above version 0.
MonotonicWitness ==
    /\ pc = "failed"
    /\ db0.uv >= 1
    /\ Len(writes) >= 1

\* C4 as stated: for a script of increasing versions a successful open()
\* executes exactly the steps above the version it found, in script order, and
\* leaves the store at the last step's version.
OrderToLastStep ==
    (pc = "done" /\ Len(steps) > 0 /\ Increasing) =>
        /\ executed = StepsAbove(db0.uv)
        /\ db.uv = steps[Len(steps)].version

\* C4, amended: ... and leaves the store at the last step's version when that
\* is greater than the version it found, and at the version it found
\* otherwise.
OrderPreserved ==
    (pc = "done" /\ Len(steps) > 0 /\ Increasing) =>
        /\ executed = StepsAbove(db0.uv)
        /\ db.log = db0.log \o Effects(executed)
        /\ db.uv = IF steps[Len(steps)].version > db0.uv
                   THEN steps[Len(steps)].version
                   ELSE db0.uv

\* C4: versions 1, 2, 3 on a store at version 1: steps 2 and 3 were executed,
\* in that order, and the store is at version 3.
OrderWitness ==
    /\ pc = "done"
    /\ [k \in 1..Len(steps) |-> steps[k].version] = <<1, 2, 3>>
    /\ db0.uv = 1
    /\ executed = <<2, 3>>
    /\ db.uv = 3

StoredVersionIsMax ==
    pc = "done" => db.uv = MaxOf({0} \cup Range(Versions(db.log)))

\* C6: a successful open() that wrote a version, on a database that holds
\* several applied steps.
StoredVersionWitness ==
    /\ pc = "done"
    /\ writes # <<>>
    /\ Len(db.log) >= 2

\* "ok" in every case.
OkTokens == { <<a, b>> : a \in {"o", "O"}, b \in {"k", "K"} }

\* C7: the integrity gate.  An integrity error is returned only with
\* check_integrity set and a report other than "ok", before any transaction,
\* statement or version write; past the gate the report was "ok" in some
\* case, or there was no scan because check_integrity is off.
IntegrityGate ==
    /\ result \in {"integrity check", "integrity check failure"} =>
          /\ pc = "failed"
          /\ setup.check_integrity
          /\ ~conn
          /\ tx = None
          /\ begun = 0
          /\ executed = <<>>
          /\ writes = <<>>
          /\ db = db0
    /\ result = "integrity check failure" =>
          IsSome(integrity) /\ Unwrap(integrity) \notin OkTokens
    /\ pc = "fk" =>
          IF setup.check_integrity
          THEN IsSome(integrity) /\ Unwrap(integrity) \in OkTokens
          ELSE integrity = None

\* C7: the scan reported something else than "ok" on a database above
\* version 0 with a script that has a pending step.
IntegrityGateWitness ==
    /\ pc = "failed"
    /\ result = "integrity check failure"
    /\ db.uv > 0
    /\ HasStepAbove(setup.schema, db.uv)

\* The steps from k to the last one, in script order.
StepsFrom(k) == [j \in 1..(Len(steps) - k + 1) |-> k + j - 1]

\* C8 as stated, its last part: a successful open() that follows an open() of
\* the same setup that failed at a step executes exactly that step and the
\* steps after it.
RetryRunsTheRest ==
    (pc = "done" /\ prev.result = "step") => executed = StepsFrom(prev.idx)

\* C8, amended.  When a statement or a version write fails, the transaction
\* is gone, the stored version is the one read in that step's transaction, the
\* content holds the effects of the steps committed before and nothing of the
\* failing step, and the failing step's transaction is the last one begun.  A
\* following successful open() of the same setup executes the failed step
\* first, so none of the steps before it, and, when the script's versions
\* increase strictly, exactly the failed step and the steps after it.
FailedStepAndRetry ==
    /\ (pc = "failed" /\ result \in {"apply schema change", "set user version"}) =>
          /\ tx = None
          /\ db.uv = uvTx
          /\ begun = idx
          /\ db.log = db0.log \o
                 Effects(SelectSeq(executed, LAMBDA k : k # idx))
          /\ db.stamps = Versions(db.log)
    /\ (pc = "done" /\ prev.result = "step") =>
          /\ executed # <<>>
          /\ executed[1] = prev.idx
          /\ Increasing => executed = StepsFrom(prev.idx)

\* C8: the retry of an open() that failed at the second of three steps, the
\* first having been committed: steps 2 and 3 were executed.
FailedStepWitness ==
    /\ pc = "done"
    /\ prev = [result |-> "step", idx |-> 2]
    /\ Len(steps) = 3
    /\ db0.uv = steps[1].version
    /\ executed = <<2, 3>>

\* "wal" in every case.
WalTokens ==
    { <<a, b, c>> : a \in {"w", "W"}, b \in {"a", "A"}, c \in {"l", "L"} }

ConfigErrors ==
    { "enable foreign keys", "enable WAL mode",
      "could not set journal mode to WAL", "set cache size" }

\* C9: a configuration failure is fatal.  With a configuration error open()
\* has returned no connection, begun no transaction, executed no statement and
\* left the content as it was; the journal mode error is returned for a mode
\* other than "wal", and past it the mode was "wal" in some case; a
\* connection is returned only with the result ok.
ConfigFatal ==
    /\ result \in ConfigErrors =>
          /\ pc = "failed"
          /\ ~conn
          /\ tx = None
          /\ begun = 0
          /\ executed = <<>>
          /\ writes = <<>>
          /\ db = db0
    /\ result = "could not set journal mode to WAL" =>
          IsSome(new_mode) /\ Unwrap(new_mode) \notin WalTokens
    /\ pc = "cache" => IsSome(new_mode) /\ Unwrap(new_mode) \in WalTokens
    /\ result = "set cache size" => IsSome(setup.cache_kb)
    /\ pc = "done" => result = "ok" /\ conn

\* C9: the journal mode stayed another one, on a database above version 0
\* with a script that has a pending step.
ConfigFatalWitness ==
    /\ pc = "failed"
    /\ result = "could not set journal mode to WAL"
    /\ db.uv > 0
    /\ HasStepAbove(setup.schema, db.uv)

\* A line that starts with the marker and whose text after the marker is not
\* an unsigned integer.
HasMalformedMarker(schema) ==
    \E k \in 1..Len(Lines(schema)) :
        LET l == Lines(schema)[k]
        IN  StartsWith(l, Marker) /\ ~IsSome(ParseU32(DropN(l, Len(Marker))))

\* C10: a script with a malformed marker line never gets past parsing: open()
\* reads no version, begins no transaction and returns no connection.
MalformedMarkerFails ==
    (IsSome(setup.schema)
        /\ pc \in {"getuv", "loop", "txuv", "exec", "stamp", "commit", "done"}) =>
        ~HasMalformedMarker(Unwrap(setup.schema))

\* A line of the script that starts with the marker.
HasMarkerLine(schema) ==
    \E k \in 1..Len(Lines(schema)) : StartsWith(Lines(schema)[k], Marker)

\* What open() returns when a step of the loop of lines 144-200 fails, or the
\* parsing before it.
StepErrors ==
    {"parse version", "begin transaction", "get user version again",
     "apply schema change", "set user version", "commit"}

\* open() has not gone into a step, has not failed in the parser or in a
\* step, and has left the database as it found it.
NoStepTaken ==
    /\ pc \notin {"txuv", "exec", "stamp", "commit"}
    /\ result \notin StepErrors
    /\ begun = 0
    /\ executed = <<>>
    /\ writes = <<>>
    /\ tx = None
    /\ db = db0
    /\ pc = "loop" => idx > Len(steps)

\* C11: a script without a marker line parses to no step at all and without
\* an error (seen after the parser, between the steps and when open()
\* returns), and with no step open() never fails in a step, begins no
\* transaction, executes no statement, leaves the database as it found it,
\* and once it has read the stored version all it can do is return the
\* connection.
ZeroStepScript ==
    /\ (pc # "idle" /\ steps = <<>> /\ result # "parse version") => NoStepTaken
    /\ ((pc \in {"getuv", "loop", "done"} /\ steps # <<>>) \/ result = "parse version") =>
          HasMarkerLine(Unwrap(setup.schema))

\* C11: open() has returned the connection for a script that has lines but no
\* marker line, on a database above version 0.
ZeroStepScriptWitness ==
    /\ pc = "done"
    /\ IsSome(setup.schema)
    /\ Unwrap(setup.schema) # <<>>
    /\ ~HasMarkerLine(Unwrap(setup.schema))
    /\ db.uv > 0

\* C12: when a step fails in the execution of its statement, in the write of
\* its version or in its commit, the error open() returns holds the version
\* and the statement of that step.
ErrorNamesStep ==
    (pc = "failed" /\ result \in {"apply schema change", "set user version", "commit"}) =>
        /\ Unwrap(error).version = Some(steps[idx].version)
        /\ Unwrap(error).statement = Some(Normalise(steps[idx].statement))

\* The first process rolled back step k: it failed in the step after the
\* statement's execution.
RolledBack(k) ==
    pc = "failed" /\ idx = k /\ result \in {"set user version", "commit"}

\* The second process rolled back step k.
OtherRolledBack(k) == other.pc = "failed" /\ other.idx = k

\* C13: with two processes in open() on the same file with the same script,
\* no process executes a step twice, a step is executed by both only when one
\* of them rolled its execution back, the file holds every statement at most
\* once, and when a process has returned its connection the stored version is
\* the greatest version of the script.
TwoMigrators ==
    /\ \A k \in 1..Len(steps) :
          (k \in Range(executed) /\ k \in Range(other.executed)) =>
              RolledBack(k) \/ OtherRolledBack(k)
    /\ \A i, j \in 1..Len(executed) : i # j => executed[i] # executed[j]
    /\ \A i, j \in 1..Len(other.executed) : i # j => other.executed[i] # other.executed[j]
    /\ \A i, j \in 1..Len(db.log) : i < j => db.log[i][1] < db.log[j][1]
    /\ (pc = "done" \/ other.pc = "done") =>
          db.uv = MaxOf({0} \cup { steps[k].version : k \in 1..Len(steps) }
                            \cup { other.steps[k].version : k \in 1..Len(other.steps) })

\* C13: both processes have returned their connection, each has executed a
\* step of the script, and the version is that of the last step.
TwoMigratorsWitness ==
    /\ pc = "done"
    /\ other.pc = "done"
    /\ executed # <<>>
    /\ other.executed # <<>>
    /\ Len(steps) > 1
    /\ db.uv = steps[Len(steps)].version

\* The text without its spaces and newlines.
Squeeze(s) == SelectSeq(s, LAMBDA c : c \notin {" ", "\n"})

ExampleExecuted ==
    <<"C", "R", "E", "A", "T", "E", " ", "T", "A", "B", "L", "E",
      " ", "t", " ", "(", "a", " ", "I", "N", "T", ",", " ", "b",
      " ", "I", "N", "T", ")">>

\* C14: the text executed for a step has no newline, no "( ", no " )" and no
\* two spaces in a row, and apart from spaces and newlines it is the step's
\* text; the statement written over indented lines is executed as
\* "CREATE TABLE t (a INT, b INT)"; normalising the executed text again
\* gives the same text.
Canonical ==
    (sample.kind = "statement" /\ IsSome(sample.out)) =>
        LET o == Unwrap(sample.out)
        IN  /\ ~Contains(o, <<"\n">>)
            /\ ~Contains(o, <<"(", " ">>)
            /\ ~Contains(o, <<" ", ")">>)
            /\ ~Contains(o, <<" ", " ">>)
            /\ o = Trim(o)
            /\ Squeeze(o) = Squeeze(sample.text)
            /\ sample.text = ExampleStatement => o = ExampleExecuted
            /\ IsSome(sample.again) => Unwrap(sample.again) = o

\* C14: the statement written over indented lines has been normalised, and
\* normalised again.
CanonicalWitness ==
    /\ sample.kind = "statement"
    /\ sample.text = ExampleStatement
    /\ IsSome(sample.again)
    /\ Unwrap(sample.out) # sample.text

\* The positions of the marker lines among the lines ls, in order.
MarkerPositions(ls) ==
    SelectSeq([i \in 1..Len(ls) |-> i], LAMBDA i : StartsWith(ls[i], Marker))

\* The lines after the k-th marker line and before the next one, or to the
\* end after the last.
LinesOfStep(ls, k) ==
    LET ms == MarkerPositions(ls)
        to == IF k < Len(ms) THEN ms[k + 1] - 1 ELSE Len(ls)
    IN  SubSeq(ls, ms[k] + 1, to)

\* C19: the parser makes one step for each marker line; the statement of a
\* step is the text of the lines between its marker line and the next marker
\* line (or the end of the script), trimmed; the lines before the first
\* marker line are in no step.
StatementsBetweenMarkers ==
    (sample.kind = "script" /\ IsSome(sample.out)) =>
        LET ls == sample.lines
            parsed == Unwrap(sample.out)
        IN  /\ parsed.ok
            /\ Len(parsed.steps) = Len(MarkerPositions(ls))
            /\ \A k \in 1..Len(parsed.steps) :
                  /\ parsed.steps[k].statement = Trim(JoinLines(LinesOfStep(ls, k)))
                  /\ parsed.steps[k].version =
                        DecimalValue(DropN(ls[MarkerPositions(ls)[k]], Len(Marker)))

\* C19: a script with lines before its first marker line, and two steps that
\* have a statement, has been parsed.
StatementsBetweenMarkersWitness ==
    /\ sample.kind = "script"
    /\ IsSome(sample.out)
    /\ Len(sample.lines) > 0
    /\ Trim(sample.lines[1]) # <<>>
    /\ ~StartsWith(sample.lines[1], Marker)
    /\ Len(Unwrap(sample.out).steps) = 2
    /\ \A k \in 1..2 : Unwrap(sample.out).steps[k].statement # <<>>

\* The content the path led to before write_file: None when it led nowhere.
Previous == IF fs.path0 = NoFile THEN None ELSE fs.files[fs.path0]

\* C15: at every point of write_file the path leads to the whole previous
\* content (or nowhere, as before) or to the whole new content; it leads to
\* the previous one until the rename has been made, and after any failure;
\* after write_file has returned Ok it leads to the new one; a reader that ran
\* alongside has read the whole of one of the two.
AtomicReplace ==
    /\ AtPath(fs) \in {Previous, Some(fs.o)}
    /\ fs.pc # "done" => AtPath(fs) = Previous /\ fs.path = fs.path0
    /\ fs.pc = "done" => AtPath(fs) = Some(fs.o)
    /\ fs.pc = "failed" => fs.temp = NoFile
    /\ fs.rpc = "done" => fs.got \in {Previous, Some(fs.o)}

\* C15: the reader opened the path while the new content was being written
\* and has read the whole previous content, and the path leads to the new one.
AtomicReplaceWitness ==
    /\ fs.pc = "done"
    /\ fs.rpc = "done"
    /\ IsSome(fs.got)
    /\ fs.got = Previous
    /\ AtPath(fs) = Some(fs.o)
    /\ Len(fs.o) = MaxBlocks

\* C16: a step is executed only when its version is greater than the version
\* stored at the time of its own transaction, whatever was read when open()
\* began: the version the transaction read is the stored one, and a step
\* whose version is not greater than it, because another process has moved
\* the stored version on since, is at its commit with its statement not
\* executed and nothing written.
InTransactionCheck ==
    pc \in {"exec", "stamp", "commit"} =>
        /\ uvTx = db.uv
        /\ steps[idx].version <= db.uv =>
              /\ pc = "commit"
              /\ idx \notin Range(executed)
              /\ Unwrap(tx) = db

\* C16: open() read a version below its first step's, another process then
\* applied the script, and open() has committed a transaction for every step
\* without executing any and returned its connection.
InTransactionCheckWitness ==
    /\ pc = "done"
    /\ Len(steps) > 1
    /\ uvOpen < steps[1].version
    /\ begun = Len(steps)
    /\ executed = <<>>
    /\ writes = <<>>
    /\ Len(other.executed) > 1

\* The errors of a step that has its transaction.
InTransactionErrors ==
    {"get user version again", "apply schema change", "set user version", "commit"}

\* C17: no transaction is open when open() has returned, with a connection
\* or with an error; a transaction is begun only when none is open, and
\* begun is counted once for it; an open transaction ends either in its
\* commit, which makes its content the stored one and moves to the next
\* step, or in its rollback at an error return (or at the death of the
\* process), which leaves the stored content as it was; the transactions
\* begun are the committed ones and the one open or rolled back.
NoDanglingTransaction ==
    [][ /\ pc' \in {"done", "failed", "idle"} => tx' = None
        /\ (~IsSome(tx) /\ IsSome(tx')) =>
              pc = "loop" /\ pc' = "txuv" /\ begun' = begun + 1
        /\ (IsSome(tx) /\ IsSome(tx')) => begun' = begun /\ db' = db /\ idx' = idx
        /\ (IsSome(tx) /\ ~IsSome(tx')) =>
              \/ pc = "commit" /\ pc' = "loop" /\ idx' = idx + 1 /\ db' = Unwrap(tx)
              \/ pc' = "failed" /\ result' \in InTransactionErrors /\ db' = db
              \/ pc' = "idle" /\ db' = db
        /\ pc' \in {"txuv", "exec", "stamp", "commit"} => IsSome(tx') /\ begun' = idx'
        /\ pc' = "loop" => begun' = idx' - 1
        /\ pc' = "done" => begun' = Len(steps')
        /\ pc' = "failed" /\ result' \in InTransactionErrors => begun' = idx'
        /\ pc' = "failed" /\ result' = "begin transaction" => begun' = idx' - 1
      ]_vars

\* C17: open() has returned the error of a commit, after it had committed
\* the transaction of an earlier step.
NoDanglingTransactionWitness ==
    /\ pc = "failed"
    /\ result = "commit"
    /\ begun > 1
    /\ tx = None
    /\ db.uv > 0

\* Step k of the parsed script is out of order: its version is 0, or is not
\* greater than the version of a step before it.
OutOfOrder(k) ==
    \/ steps[k].version = 0
    \/ \E j \in 1..(k - 1) : steps[k].version <= steps[j].version

\* The versions of the marker lines of a script, in the order of the lines.
MarkerVersions(schema) ==
    LET ls == Lines(schema)
        ms == MarkerPositions(ls)
    IN  [k \in 1..Len(ms) |-> DecimalValue(DropN(ls[ms[k]], Len(Marker)))]

\* C18: a script whose versions are out of order is parsed without an error,
\* its steps are kept in the order of the script and gone through in that
\* order, and a step that is out of order is executed by no process,
\* whatever the stored version has become.
OutOfOrderSkipped ==
    /\ result # "parse version"
    /\ pc \notin {"schema", "failed"} =>
          [k \in 1..Len(steps) |-> steps[k].version]
              = MarkerVersions(Unwrap(setup.schema))
    /\ \A k \in 1..Len(steps) :
          OutOfOrder(k) => k \notin Range(executed) /\ k \notin Range(other.executed)
    /\ \A i, j \in 1..Len(executed) : i < j => executed[i] < executed[j]
    /\ pc = "failed" => result \in StepErrors \cup {"get user version"}

\* C18: open() has returned its connection for a script with a step of
\* version 0 and a step whose version is below that of the step before it,
\* having executed the step before it.
OutOfOrderSkippedWitness ==
    /\ pc = "done"
    /\ Len(steps) > 2
    /\ steps[1].version = 0
    /\ steps[3].version < steps[2].version
    /\ steps[3].version > 0
    /\ executed = <<2>>
    /\ other.executed = <<>>

\* C20: without a schema, open() goes through the integrity check and the
\* pragmas and returns: it never reads the stored version, has no step,
\* begins no transaction, executes and writes nothing, and leaves the
\* database as it found it.
NoSchemaNoMigration ==
    (pc # "idle" /\ ~IsSome(setup.schema)) =>
        /\ pc \in {"integrity", "fk", "wal", "cache", "schema", "done", "failed"}
        /\ result \notin StepErrors \cup {"get user version"}
        /\ steps = <<>>
        /\ idx = 0
        /\ begun = 0
        /\ executed = <<>>
        /\ writes = <<>>
        /\ tx = None
        /\ db = db0
        /\ pc = "done" => result = "ok" /\ conn

\* C20: open() has returned its connection without a schema, after the
\* integrity check and the pragmas, on a database above version 0.
NoSchemaNoMigrationWitness ==
    /\ pc = "done"
    /\ ~IsSome(setup.schema)
    /\ setup.check_integrity
    /\ result = "ok"
    /\ db.uv > 0
    /\ db = db0

====
